---- MODULE Spec2Model ----
(***************************************************************************)
(* Model of Exercises/Exercise08/Cpp/matmul.cpp: the two OpenCL kernels    *)
(* (mmul and optimized_rowCPerWorkItemAPrivateBLocal_mmul) and the host    *)
(* driver main() that times the sequential, the naive and the optimised    *)
(* multiplication.                                                         *)
(*                                                                         *)
(* The specifications share the kernel operators:                          *)
(*   Spec        the host driver main(); the device runs an enqueued       *)
(*               kernel as one step (DeviceExecute) between the enqueue    *)
(*               and queue.finish().                                       *)
(*   SpecKernel  one invocation of the tiled kernel, work-item by          *)
(*               work-item, under every interleaving, with the work-group  *)
(*               barrier.                                                  *)
(*   SpecKernels one invocation of either kernel: SpecKernel and the       *)
(*               work-items of mmul.                                       *)
(*   SpecLoad    one work-item of the tiled kernel and its private array   *)
(*               Awrk, index by index, at orders around the capacity.      *)
(*                                                                         *)
(* Matrices are row-major functions 0..N*N-1 -> Int, indexed i*N+k as in   *)
(* the source.  The entries are small integers, which single-precision     *)
(* floats represent and add exactly, so integer arithmetic is the          *)
(* arithmetic of the program on these inputs.                              *)
(***************************************************************************)
EXTENDS Integers, Sequences, FiniteSets, TLC

\* ---------------------------------------------------------------- bounds
MaxCount == 2      \* COUNT (matmul.hpp) ranges over 1..MaxCount
MaxPattern == 2    \* fill patterns of initmat range over 0..MaxPattern
MaxGarbage == 2    \* contents of uninitialised memory: seeds 0..MaxGarbage
MaxDevices == 1    \* device index and device count range over 0..MaxDevices
MaxN == 3          \* SpecKernel: the order N ranges over 1..MaxN
MaxLoc == 3        \* SpecKernel: the local size ranges over 1..MaxLoc
MaxGrid == 2       \* SpecKernels: mmul runs over NDRange(G, G), G in 1..MaxGrid

\* ------------------------------------------------------ program constants
TeamDiv == 16      \* cl::NDRange(ORDER/16), the local size of the tiled launch
AwrkCap == 1024    \* float Awrk[1024], the private array of the tiled kernel

\* ORDER (matmul.hpp): the orders the driver is built with in this model.
\* 1 is the degenerate order, TeamDiv the smallest order whose tiled launch
\* has a non-zero local size, and 2*TeamDiv+1 the smallest order whose local
\* size does not divide the global size.
Orders == {1, TeamDiv, 2 * TeamDiv + 1}

Cells(n) == 0 .. (n * n - 1)

EXIT_SUCCESS == "EXIT_SUCCESS"
EXIT_FAILURE == "EXIT_FAILURE"

\* ------------------------------------------------------------- matrix_lib
\* initmat: a fixed, reproducible function of row, column and N.
FillA(p, n) ==
  [c \in Cells(n) |->
     CASE p = 0 -> 1
       [] p = 1 -> IF c \div n = c % n THEN 1 ELSE 0
       [] OTHER -> ((c \div n) + 2 * (c % n) + p) % 3]

FillB(p, n) ==
  [c \in Cells(n) |->
     CASE p = 0 -> 2
       [] p = 1 -> 1 + ((c % n) % 2)
       [] OTHER -> (2 * (c \div n) + (c % n) + p) % 3]

FillC(p, n) == [c \in Cells(n) |-> 7]

\* zero_mat: every element of C becomes 0.
ZeroMat(n) == [c \in Cells(n) |-> 0]

\* seq_mat_mul_sdot: C[i,j] = sum over k of A[i,k]*B[k,j].
RECURSIVE SeqDot(_, _, _, _, _, _)
SeqDot(n, a, b, i, j, k) ==
  IF k = 0 THEN 0
  ELSE SeqDot(n, a, b, i, j, k - 1) + a[i * n + (k - 1)] * b[(k - 1) * n + j]

SeqMatMul(n, a, b) == [c \in Cells(n) |-> SeqDot(n, a, b, c \div n, c % n, n)]

\* Contents of memory nobody initialised (cl::Buffer of line 174 and 224, the
\* __local buffer): any of the patterns 0..MaxGarbage.
Garbage(g, len) == [c \in 0 .. (len - 1) |-> IF c % 2 = 0 THEN g % 2 ELSE g \div 2]

\* ---------------------------------------------------------------- kernels
\* mmul, lines 42-46: tmp = 0; for k: tmp += A[i*N+k] * B[k*N+j].
RECURSIVE MmulLoop(_, _, _, _, _, _, _)
MmulLoop(n, a, b, i, j, k, tmp) ==
  IF k < n THEN MmulLoop(n, a, b, i, j, k + 1, tmp + a[i * n + k] * b[k * n + j])
  ELSE tmp

\* mmul with the slip `+=` for `=` in line 47.
MmulStoreAccumulates(old, tmp) == old + tmp

\* mmul, line 47: C[i*N+j] = tmp; old is what the cell held.
MmulStore(old, tmp) == tmp

\* The cell index with the stride forgotten: i + j.
CIndexNoStride(n, i, j) == i + j

\* lines 47 and 79: the cell of C that work-item i stores to for column j,
\* C[i*N+j].
CIndex(n, i, j) == i * n + j

\* mmul, lines 38-48, one work-item (i,j): the C it leaves.
MmulWorkItem(n, a, b, c, i, j) ==
  IF i < n /\ j < n
  THEN [c EXCEPT ![CIndex(n, i, j)] =
                    MmulStore(@, MmulLoop(n, a, b, i, j, 0, 0))]
  ELSE c

\* mmul over the whole NDRange(gx, gy): work-item (i,j) alone touches C[i*N+j].
MmulKernel(n, a, b, c, gx, gy) ==
  [x \in DOMAIN c |->
     IF (x \div n) < gx /\ (x % n) < gy
     THEN MmulStore(c[x], MmulLoop(n, a, b, x \div n, x % n, 0, 0))
     ELSE c[x]]

\* The Awrk load with the slip A[k*N+i] for A[i*N+k]: a column, not the row.
LoadAwrkColumn(n, a, i) == [k \in 0 .. (n - 1) |-> a[k * n + i]]

\* tiled kernel, lines 66-68: Awrk[k] = A[i*N+k] (float Awrk[1024], line 64;
\* the orders of SpecKernel are below that capacity, SpecLoad goes past it).
LoadAwrk(n, a, i) == [k \in 0 .. (n - 1) |-> a[i * n + k]]

\* tiled kernel, lines 73-78: tmp = 0; for k: tmp += Awrk[k] * B[k*N+j].
RECURSIVE OptLoop(_, _, _, _, _, _)
OptLoop(n, awrk, b, j, k, tmp) ==
  IF k < n THEN OptLoop(n, awrk, b, j, k + 1, tmp + awrk[k] * b[k * n + j])
  ELSE tmp

\* tiled kernel, line 79: C[i*N+j] += tmp; old is what the read of the cell
\* returns.
OptStore(old, tmp) == old + tmp

\* tiled kernel over NDRange(g): work-item i < N alone touches row i of C, each
\* cell once (in its epoch j); cread is what the reads of C return.
OptKernel(n, a, b, c, cread, g) ==
  [x \in DOMAIN c |->
     IF (x \div n) < g
     THEN OptStore(cread[x], OptLoop(n, LoadAwrk(n, a, x \div n), b, x % n, 0, 0))
     ELSE c[x]]

\* clEnqueueNDRangeKernel accepts a local size only if it is non-zero and
\* divides the global size (the program is built without -cl-std=CL2.0).
ValidShape(g, loc) == loc >= 1 /\ g % loc = 0


\* ------------------------------------------------------------------ state
VARIABLES
  \* main(), lines 85-269
  pc,            \* position of main()
  N,             \* int N = ORDER
  count,         \* COUNT
  pat,           \* the fill pattern initmat is built with
  deviceIndex,   \* cl_uint deviceIndex
  numDevices,    \* unsigned numDevices; -1 until getDeviceList has returned
  h_A, h_B, h_C, \* host vectors
  d_a, d_b, d_c, \* device buffers; <<>> until created
  rep,           \* the loop counter i of the current timing loop
  inflight,      \* the command queue: "none", a queued kernel, or "complete"
  exitStatus,    \* "running" until main returns
  printed,       \* the diagnostics written to cout/cerr
  reported,      \* the calls of results(N, h_C, run_time), in order
  thrown,        \* "none", or why a cl::Error was thrown
  initmatCalls, seqCalls, launches,
  executed,      \* the kernels the device has run to completion
  \* one kernel invocation, work-item by work-item (SpecKernel)
  kernel,        \* "none", "mmul" or "opt"
  G,             \* global size (per dimension)
  nloc,          \* get_local_size(0)
  hung,          \* the work-groups whose barrier will never release
  wpc,           \* position of each work-item
  wj, wk,        \* the kernel locals j and k of each work-item
  Awrk,          \* the private array Awrk of each work-item
  Bwrk,          \* the __local buffer of each work-group
  staged,        \* history: who wrote Bwrk[k] in epoch j, per work-group
  cwriters       \* history: the work-items that stored to each cell of C

cfgVars == <<N, count, pat>>
devVars == <<deviceIndex, numDevices>>
matVars == <<h_A, h_B, h_C>>
bufVars == <<d_a, d_b, d_c>>
outVars == <<exitStatus, printed, reported, thrown>>
ctrVars == <<initmatCalls, seqCalls, launches, executed>>
hostVars == <<pc, cfgVars, devVars, matVars, rep, inflight, outVars, ctrVars>>
kernVars == <<kernel, G, nloc, hung, wpc, wj, wk, Awrk, Bwrk, staged,
              cwriters>>
vars == <<hostVars, bufVars, kernVars>>

\* ----------------------------------------------------------------- main()
KernelIdle ==
  /\ kernel = "none" /\ G = 0 /\ nloc = 0 /\ hung = {}
  /\ wpc = <<>> /\ wj = <<>> /\ wk = <<>> /\ Awrk = <<>> /\ Bwrk = <<>>
  /\ staged = <<>> /\ cwriters = <<>>

\* lines 88-102: N = ORDER, the host vectors are value-initialised, the device
\* buffers are null.
Init ==
  /\ pc = "parseArguments"
  /\ N \in Orders
  /\ count \in 1 .. MaxCount
  /\ pat \in 0 .. MaxPattern
  /\ deviceIndex = 0
  /\ numDevices = -1
  /\ h_A = ZeroMat(N) /\ h_B = ZeroMat(N) /\ h_C = ZeroMat(N)
  /\ d_a = <<>> /\ d_b = <<>> /\ d_c = <<>>
  /\ rep = 0
  /\ inflight = "none"
  /\ exitStatus = "running"
  /\ printed = {}
  /\ reported = <<>>
  /\ thrown = "none"
  /\ initmatCalls = 0 /\ seqCalls = 0 /\ launches = 0 /\ executed = 0
  /\ KernelIdle

\* lines 140, 168, 218: initmat(N, h_A, h_B, h_C).
initmat ==
  /\ h_A' = FillA(pat, N)
  /\ h_B' = FillB(pat, N)
  /\ h_C' = FillC(pat, N)
  /\ initmatCalls' = initmatCalls + 1

\* results(N, h_C, run_time) of repetition rep+1 of a strategy.
results(strategy, c) ==
  reported' = Append(reported, [strategy |-> strategy, rep |-> rep + 1, C |-> c])

\* The buffers with the two host vectors exchanged.
CreateBuffersSwapped ==
  /\ d_a' = h_B
  /\ d_b' = h_A
  /\ \E g \in 0 .. MaxGarbage : d_c' = Garbage(g, N * N)

\* lines 170-174 and 220-224: d_a and d_b are copies of the host vectors, d_c
\* is a new buffer that nobody writes.
CreateBuffers ==
  /\ d_a' = h_A
  /\ d_b' = h_B
  /\ \E g \in 0 .. MaxGarbage : d_c' = Garbage(g, N * N)

\* lines 111-112
ParseArguments ==
  /\ pc = "parseArguments"
  /\ \E d \in 0 .. MaxDevices : deviceIndex' = d
  /\ pc' = "getDeviceList"
  /\ UNCHANGED <<cfgVars, numDevices, matVars, rep, inflight, outVars, ctrVars,
                 bufVars, kernVars>>

\* lines 115-116
GetDeviceList ==
  /\ pc = "getDeviceList"
  /\ \E n \in 0 .. MaxDevices : numDevices' = n
  /\ pc' = "checkIndex"
  /\ UNCHANGED <<cfgVars, deviceIndex, matVars, rep, inflight, outVars, ctrVars,
                 bufVars, kernVars>>

\* The device index test with the slip `>` for `>=`.
InvalidDeviceIndexOffByOne(idx, n) == idx > n

\* line 119: if (deviceIndex >= numDevices)
InvalidDeviceIndex(idx, n) == idx >= n

\* lines 119-123
CheckDeviceIndex ==
  /\ pc = "checkIndex"
  /\ IF InvalidDeviceIndex(deviceIndex, numDevices)
     THEN /\ printed' = printed \cup {"Invalid device index"}
          /\ exitStatus' = EXIT_FAILURE
          /\ pc' = "exited"
     ELSE /\ pc' = "createContext"
          /\ UNCHANGED <<printed, exitStatus>>
  /\ UNCHANGED <<cfgVars, devVars, matVars, rep, inflight, reported, thrown,
                 ctrVars, bufVars, kernVars>>

\* lines 125-134
CreateContext ==
  /\ pc = "createContext"
  /\ pc' = "seqInitmat"
  /\ UNCHANGED <<cfgVars, devVars, matVars, rep, inflight, outVars, ctrVars,
                 bufVars, kernVars>>

\* lines 140-146
SeqInitmat ==
  /\ pc = "seqInitmat"
  /\ initmat
  /\ rep' = 0
  /\ pc' = "seqLoop"
  /\ UNCHANGED <<cfgVars, devVars, inflight, outVars, seqCalls, launches,
                 executed, bufVars, kernVars>>

\* lines 147-158: zero_mat, seq_mat_mul_sdot, results; or leave the loop.
SeqLoop ==
  /\ pc = "seqLoop"
  /\ IF rep < count
     THEN /\ h_C' = SeqMatMul(N, h_A, h_B)
          /\ seqCalls' = seqCalls + 1
          /\ results("seq", h_C')
          /\ rep' = rep + 1
          /\ pc' = "seqLoop"
     ELSE /\ pc' = "buildProgram"
          /\ UNCHANGED <<h_C, seqCalls, reported, rep>>
  /\ UNCHANGED <<cfgVars, devVars, h_A, h_B, inflight, exitStatus, printed,
                 thrown, initmatCalls, launches, executed, bufVars,
                 kernVars>>

\* line 161
BuildProgram ==
  /\ pc = "buildProgram"
  /\ pc' = "naiveInitmat"
  /\ UNCHANGED <<cfgVars, devVars, matVars, rep, inflight, outVars, ctrVars,
                 bufVars, kernVars>>

\* line 168
NaiveInitmat ==
  /\ pc = "naiveInitmat"
  /\ initmat
  /\ pc' = "naiveBuffers"
  /\ UNCHANGED <<cfgVars, devVars, rep, inflight, outVars, seqCalls, launches,
                 executed, bufVars, kernVars>>

\* lines 170-174
NaiveBuffers ==
  /\ pc = "naiveBuffers"
  /\ CreateBuffers
  /\ pc' = "naiveMakeKernel"
  /\ UNCHANGED <<cfgVars, devVars, matVars, rep, inflight, outVars, ctrVars,
                 kernVars>>

\* lines 180-188
NaiveMakeKernel ==
  /\ pc = "naiveMakeKernel"
  /\ rep' = 0
  /\ pc' = "naiveLoop"
  /\ UNCHANGED <<cfgVars, devVars, matVars, inflight, outVars, ctrVars, bufVars,
                 kernVars>>

\* lines 191-195: the loop test and zero_mat(N, h_C).
NaiveLoop ==
  /\ pc = "naiveLoop"
  /\ IF rep < count
     THEN /\ h_C' = ZeroMat(N)
          /\ pc' = "naiveEnqueue"
     ELSE /\ pc' = "optInitmat"
          /\ UNCHANGED h_C
  /\ UNCHANGED <<cfgVars, devVars, h_A, h_B, rep, inflight, outVars, ctrVars,
                 bufVars, kernVars>>

\* lines 201-202: mmul over NDRange(N, N), local size left to the runtime.
NaiveEnqueue ==
  /\ pc = "naiveEnqueue"
  /\ inflight' = "mmul"
  /\ launches' = launches + 1
  /\ pc' = "naiveFinish"
  /\ UNCHANGED <<cfgVars, devVars, matVars, rep, outVars, initmatCalls,
                 seqCalls, executed, bufVars, kernVars>>

\* queue.finish() that returns without waiting for the queued kernel.
QueueFinishNoWait(next) ==
  /\ pc' = next
  /\ UNCHANGED inflight

\* line 204 and 249: queue.finish() returns once the queued kernel is complete.
QueueFinish(next) ==
  /\ inflight = "complete"
  /\ inflight' = "none"
  /\ pc' = next

NaiveFinish ==
  /\ pc = "naiveFinish"
  /\ QueueFinish("naiveCopy")
  /\ UNCHANGED <<cfgVars, devVars, matVars, rep, outVars, ctrVars, bufVars,
                 kernVars>>

\* lines 209-213: cl::copy(queue, d_c, h_C), results, i++.
NaiveCopy ==
  /\ pc = "naiveCopy"
  /\ h_C' = d_c
  /\ results("naive", h_C')
  /\ rep' = rep + 1
  /\ pc' = "naiveLoop"
  /\ UNCHANGED <<cfgVars, devVars, h_A, h_B, inflight, exitStatus, printed,
                 thrown, ctrVars, bufVars, kernVars>>

\* line 218
OptInitmat ==
  /\ pc = "optInitmat"
  /\ initmat
  /\ pc' = "optBuffers"
  /\ UNCHANGED <<cfgVars, devVars, rep, inflight, outVars, seqCalls, launches,
                 executed, bufVars, kernVars>>

\* lines 220-224
OptBuffers ==
  /\ pc = "optBuffers"
  /\ CreateBuffers
  /\ pc' = "optMakeKernel"
  /\ UNCHANGED <<cfgVars, devVars, matVars, rep, inflight, outVars, ctrVars,
                 kernVars>>

\* lines 230-239
OptMakeKernel ==
  /\ pc = "optMakeKernel"
  /\ rep' = 0
  /\ pc' = "optLoop"
  /\ UNCHANGED <<cfgVars, devVars, matVars, inflight, outVars, ctrVars, bufVars,
                 kernVars>>

\* lines 241-245: the loop test and zero_mat(N, h_C).
OptLoopHead ==
  /\ pc = "optLoop"
  /\ IF rep < count
     THEN /\ h_C' = ZeroMat(N)
          /\ pc' = "optEnqueue"
     ELSE /\ pc' = "return"
          /\ UNCHANGED h_C
  /\ UNCHANGED <<cfgVars, devVars, h_A, h_B, rep, inflight, outVars, ctrVars,
                 bufVars, kernVars>>

\* line 247: the local size of the tiled launch.
LocalSize(order) == order \div TeamDiv

\* line 247: the tiled kernel over NDRange(N) in groups of ORDER/16; the
\* enqueue throws cl::Error when the runtime rejects the shape.
OptEnqueue ==
  /\ pc = "optEnqueue"
  /\ IF ValidShape(N, LocalSize(N))
     THEN /\ inflight' = "opt"
          /\ launches' = launches + 1
          /\ pc' = "optFinish"
          /\ UNCHANGED thrown
     ELSE /\ thrown' = "shape"
          /\ pc' = "catch"
          /\ UNCHANGED <<inflight, launches>>
  /\ UNCHANGED <<cfgVars, devVars, matVars, rep, exitStatus, printed, reported,
                 initmatCalls, seqCalls, executed, bufVars, kernVars>>

OptFinish ==
  /\ pc = "optFinish"
  /\ QueueFinish("optCopy")
  /\ UNCHANGED <<cfgVars, devVars, matVars, rep, outVars, ctrVars, bufVars,
                 kernVars>>

\* lines 254-258
OptCopy ==
  /\ pc = "optCopy"
  /\ h_C' = d_c
  /\ results("opt", h_C')
  /\ rep' = rep + 1
  /\ pc' = "optLoop"
  /\ UNCHANGED <<cfgVars, devVars, h_A, h_B, inflight, exitStatus, printed,
                 thrown, ctrVars, bufVars, kernVars>>

\* What a kernel's read of d_c returns.  d_c is created CL_MEM_WRITE_ONLY
\* (lines 174, 224), so a read of it inside a kernel is undefined: it returns
\* the stored contents or anything else.
ReadsOfC == {d_c, Garbage(MaxGarbage, N * N)}

\* The device runs the queued kernel to completion.
DeviceExecute ==
  /\ inflight \in {"mmul", "opt"}
  /\ IF inflight = "mmul"
     THEN d_c' = MmulKernel(N, d_a, d_b, d_c, N, N)
     ELSE \E cread \in ReadsOfC : d_c' = OptKernel(N, d_a, d_b, d_c, cread, N)
  /\ inflight' = "complete"
  /\ executed' = executed + 1
  /\ UNCHANGED <<pc, cfgVars, devVars, matVars, rep, outVars, initmatCalls,
                 seqCalls, launches, d_a, d_b, kernVars>>

\* The positions of main() at which the next statement calls into OpenCL and
\* may throw cl::Error (__CL_ENABLE_EXCEPTIONS).
ClCallPcs == {"getDeviceList", "createContext", "buildProgram", "naiveBuffers",
              "naiveMakeKernel", "naiveEnqueue", "naiveFinish", "naiveCopy",
              "optBuffers", "optMakeKernel", "optEnqueue", "optFinish",
              "optCopy"}

\* A call into OpenCL throws cl::Error.
ClError ==
  /\ pc \in ClCallPcs
  /\ thrown' = "env"
  /\ pc' = "catch"
  /\ UNCHANGED <<cfgVars, devVars, matVars, rep, inflight, exitStatus, printed,
                 reported, ctrVars, bufVars, kernVars>>

\* lines 261-266
CatchClError ==
  /\ pc = "catch"
  /\ printed' = printed \cup {"Exception", "ERROR"}
  /\ pc' = "return"
  /\ UNCHANGED <<cfgVars, devVars, matVars, rep, inflight, exitStatus, reported,
                 thrown, ctrVars, bufVars, kernVars>>

\* line 268
ReturnSuccess ==
  /\ pc = "return"
  /\ exitStatus' = EXIT_SUCCESS
  /\ pc' = "exited"
  /\ UNCHANGED <<cfgVars, devVars, matVars, rep, inflight, printed, reported,
                 thrown, ctrVars, bufVars, kernVars>>

Next ==
  \/ ParseArguments \/ GetDeviceList \/ CheckDeviceIndex \/ CreateContext
  \/ SeqInitmat \/ SeqLoop \/ BuildProgram
  \/ NaiveInitmat \/ NaiveBuffers \/ NaiveMakeKernel \/ NaiveLoop
  \/ NaiveEnqueue \/ NaiveFinish \/ NaiveCopy
  \/ OptInitmat \/ OptBuffers \/ OptMakeKernel \/ OptLoopHead
  \/ OptEnqueue \/ OptFinish \/ OptCopy
  \/ DeviceExecute \/ ClError \/ CatchClError \/ ReturnSuccess

Spec == Init /\ [][Next]_vars

\* ------------------------------------------------- one kernel invocation
\* The tiled kernel over NDRange(G) in work-groups of nloc work-items, on the
\* buffers d_a, d_b, d_c and one __local buffer Bwrk per work-group; mmul
\* over NDRange(G, G), work-item w being (w \div G, w % G).
WorkItems == IF kernel = "mmul" THEN 0 .. (G * G - 1) ELSE 0 .. (G - 1)
Groups == 0 .. ((G \div nloc) - 1)

\* get_group_id(0), get_local_id(0)
GroupOf(w) == w \div nloc
LocalId(w) == w % nloc
Members(t) == {w \in WorkItems : GroupOf(w) = t}

HostIdle ==
  /\ pc = "device"
  /\ count = 1
  /\ deviceIndex = 0 /\ numDevices = 1
  /\ rep = 0
  /\ inflight = kernel
  /\ exitStatus = "running"
  /\ printed = {}
  /\ reported = <<>>
  /\ thrown = "none"
  /\ initmatCalls = 0 /\ seqCalls = 0 /\ launches = 1 /\ executed = 0

\* The launch: any order, any local size, one or two work-groups; the
\* buffers hold the host vectors, A and B any fill pattern, C zero or not;
\* Bwrk is uninitialised.
InitKernel ==
  /\ kernel = "opt"
  /\ HostIdle
  /\ N \in 1 .. MaxN
  /\ nloc \in 1 .. MaxLoc
  /\ G \in {nloc, 2 * nloc}
  /\ pat \in 0 .. MaxPattern
  /\ h_A = FillA(pat, N)
  /\ h_B = FillB(pat, N)
  /\ h_C \in {ZeroMat(N), Garbage(MaxGarbage, N * N)}
  /\ d_a = h_A /\ d_b = h_B /\ d_c = h_C
  /\ \E g \in {0, MaxGarbage} : Bwrk = [t \in Groups |-> Garbage(g, N)]
  /\ hung = {}
  /\ wpc = [w \in WorkItems |-> "start"]
  /\ wj = [w \in WorkItems |-> 0]
  /\ wk = [w \in WorkItems |-> 0]
  /\ Awrk = [w \in WorkItems |-> <<>>]
  /\ staged = [t \in Groups |-> [j \in 0 .. (N - 1) |-> [k \in 0 .. (N - 1) |-> <<>>]]]
  /\ cwriters = [c \in Cells(N) |-> {}]

\* The kernel with if (i < N) around the row copy alone: every work-item
\* enters the j loop.
WorkItemStartUnguarded(w) ==
  /\ kernel = "opt"
  /\ wpc[w] = "start"
  /\ Awrk' = [Awrk EXCEPT ![w] = IF w < N THEN LoadAwrk(N, d_a, w) ELSE @]
  /\ wk' = [wk EXCEPT ![w] = LocalId(w)]
  /\ wpc' = [wpc EXCEPT ![w] = "stage"]
  /\ UNCHANGED <<hostVars, bufVars, kernel, G, nloc, hung, wj, Bwrk, staged,
                 cwriters>>

\* lines 59-68: i = get_global_id(0); a work-item with i >= N skips the body,
\* the others copy their row of A into Awrk and enter the j loop.
WorkItemStart(w) ==
  /\ kernel = "opt"
  /\ wpc[w] = "start"
  /\ IF w < N
     THEN /\ Awrk' = [Awrk EXCEPT ![w] = LoadAwrk(N, d_a, w)]
          /\ wk' = [wk EXCEPT ![w] = LocalId(w)]
          /\ wpc' = [wpc EXCEPT ![w] = "stage"]
     ELSE /\ wpc' = [wpc EXCEPT ![w] = "done"]
          /\ UNCHANGED <<Awrk, wk>>
  /\ UNCHANGED <<hostVars, bufVars, kernel, G, nloc, hung, wj, Bwrk, staged,
                 cwriters>>

\* lines 70-71, one iteration: Bwrk[k] = B[k*N+j]; k += nloc.
StageWrite(w) ==
  /\ wpc[w] = "stage"
  /\ wk[w] < N
  /\ Bwrk' = [Bwrk EXCEPT ![GroupOf(w)][wk[w]] = d_b[wk[w] * N + wj[w]]]
  /\ staged' = [staged EXCEPT ![GroupOf(w)][wj[w]][wk[w]] = Append(@, LocalId(w))]
  /\ wk' = [wk EXCEPT ![w] = @ + nloc]
  /\ UNCHANGED <<hostVars, bufVars, kernel, G, nloc, hung, wpc, wj, Awrk,
                 cwriters>>

\* lines 70-72: the staging loop ends and the work-item waits at the barrier.
BarrierArrive(w) ==
  /\ wpc[w] = "stage"
  /\ wk[w] >= N
  /\ wpc' = [wpc EXCEPT ![w] = "barrier"]
  /\ UNCHANGED <<hostVars, bufVars, kernel, G, nloc, hung, wj, wk, Awrk, Bwrk,
                 staged, cwriters>>

\* The work-items of group t that wait at the barrier go on.
ReleaseGroup(t) ==
  wpc' = [w \in WorkItems |->
            IF GroupOf(w) = t /\ wpc[w] = "barrier" THEN "acc" ELSE wpc[w]]

\* A barrier that lets a work-item through as soon as one has arrived.
BarrierCompleteAny(t) == \E w \in Members(t) : wpc[w] = "barrier"

\* line 72: barrier(CLK_LOCAL_MEM_FENCE) holds the work-items of a group
\* until every one of them has reached it.
BarrierComplete(t) == \A w \in Members(t) : wpc[w] = "barrier"

\* line 72: every work-item of the group has reached the barrier.
BarrierRelease(t) ==
  /\ BarrierComplete(t)
  /\ ReleaseGroup(t)
  /\ UNCHANGED <<hostVars, bufVars, kernel, G, nloc, hung, wj, wk, Awrk, Bwrk,
                 staged, cwriters>>

\* line 61 and 72: the barrier is inside if (i < N), so in a group that holds
\* work-items with i < N and with i >= N only the former reach it.  OpenCL
\* leaves that undefined: the build lets the waiting ones go on (it counts the
\* finished work-items as arrived), or they wait forever.
BarrierDiverged(t) ==
  /\ t \notin hung
  /\ \E w \in Members(t) : wpc[w] = "barrier"
  /\ \E w \in Members(t) : w >= N /\ wpc[w] = "done"
  /\ \A w \in Members(t) : wpc[w] = "barrier" \/ (w >= N /\ wpc[w] = "done")
  /\ \/ ReleaseGroup(t) /\ UNCHANGED hung
     \/ hung' = hung \cup {t} /\ UNCHANGED wpc
  /\ UNCHANGED <<hostVars, bufVars, kernel, G, nloc, wj, wk, Awrk, Bwrk, staged,
                 cwriters>>

\* lines 73-80: tmp = sum over k of Awrk[k]*B[k*N+j]; C[i*N+j] += tmp; j++.
Accumulate(w) ==
  /\ wpc[w] = "acc"
  /\ d_c' = [d_c EXCEPT ![CIndex(N, w, wj[w])] =
                     OptStore(@, OptLoop(N, Awrk[w], d_b, wj[w], 0, 0))]
  /\ cwriters' = [cwriters EXCEPT ![CIndex(N, w, wj[w])] = @ \cup {w}]
  /\ wj' = [wj EXCEPT ![w] = @ + 1]
  /\ wk' = [wk EXCEPT ![w] = LocalId(w)]
  /\ wpc' = [wpc EXCEPT ![w] = IF wj[w] + 1 < N THEN "stage" ELSE "done"]
  /\ UNCHANGED <<hostVars, d_a, d_b, kernel, G, nloc, hung, Awrk, Bwrk, staged>>

NextKernel ==
  \/ \E w \in WorkItems : WorkItemStart(w)
  \/ \E w \in WorkItems : StageWrite(w)
  \/ \E w \in WorkItems : BarrierArrive(w)
  \/ \E w \in WorkItems : Accumulate(w)
  \/ \E t \in Groups : BarrierRelease(t)
  \/ \E t \in Groups : BarrierDiverged(t)

SpecKernel == InitKernel /\ [][NextKernel]_vars

\* ------------------------------------------- either kernel, one invocation
\* The launch of mmul over NDRange(G, G), exact, over- or under-provisioned;
\* the kernel uses no local memory and no barrier, so the work-group size
\* plays no part.
InitMmul ==
  /\ kernel = "mmul"
  /\ HostIdle
  /\ N \in 1 .. MaxN
  /\ G \in 1 .. MaxGrid
  /\ nloc = 1
  /\ pat \in 0 .. MaxPattern
  /\ h_A = FillA(pat, N)
  /\ h_B = FillB(pat, N)
  /\ h_C \in {ZeroMat(N), Garbage(MaxGarbage, N * N)}
  /\ d_a = h_A /\ d_b = h_B /\ d_c = h_C
  /\ Bwrk = <<>> /\ staged = <<>>
  /\ hung = {}
  /\ wpc = [w \in WorkItems |-> "start"]
  /\ wj = [w \in WorkItems |-> 0]
  /\ wk = [w \in WorkItems |-> 0]
  /\ Awrk = [w \in WorkItems |-> <<>>]
  /\ cwriters = [c \in Cells(N) |-> {}]

\* lines 38-48: work-item w of mmul, i = get_global_id(0), j = get_global_id(1).
mmul(w) ==
  /\ kernel = "mmul"
  /\ wpc[w] = "start"
  /\ LET i == w \div G
         j == w % G
     IN /\ d_c' = MmulWorkItem(N, d_a, d_b, d_c, i, j)
        /\ cwriters' = IF i < N /\ j < N
                       THEN [cwriters EXCEPT ![CIndex(N, i, j)] = @ \cup {w}]
                       ELSE cwriters
  /\ wpc' = [wpc EXCEPT ![w] = "done"]
  /\ UNCHANGED <<hostVars, d_a, d_b, kernel, G, nloc, hung, wj, wk, Awrk, Bwrk,
                 staged>>

NextMmul == \E w \in WorkItems : mmul(w)

InitKernels == InitKernel \/ InitMmul

NextKernels == NextKernel \/ NextMmul

SpecKernels == InitKernels /\ [][NextKernels]_vars

\* ------------------------------------- the private array of one work-item
\* The orders above and below the capacity of Awrk whose tiled launch the
\* runtime accepts (multiples of 16).
LoadOrders ==
  {n \in {TeamDiv, 2 * TeamDiv, AwrkCap, AwrkCap + TeamDiv} :
      ValidShape(n, LocalSize(n))}

\* Work-item i of the tiled kernel as main launches it, i the first or the
\* last row; d_a holds the row of A that the work-item reads, Awrk is
\* uninitialised.
InitLoad ==
  /\ kernel = "opt"
  /\ HostIdle
  /\ N \in LoadOrders
  /\ G = N
  /\ nloc = LocalSize(N)
  /\ pat = 0
  /\ h_A = <<>> /\ h_B = <<>> /\ h_C = <<>>
  /\ \E i \in {0, N - 1} :
       /\ d_a = [c \in (i * N) .. (i * N + N - 1) |-> 1 + (c % 2)]
       /\ wpc = [w \in {i} |-> "load"]
       /\ wj = [w \in {i} |-> 0]
       /\ wk = [w \in {i} |-> 0]
       /\ \E g \in {0, MaxGarbage} : Awrk = [w \in {i} |-> Garbage(g, AwrkCap)]
  /\ d_b = <<>> /\ d_c = <<>>
  /\ Bwrk = <<>> /\ staged = <<>> /\ cwriters = <<>>
  /\ hung = {}

\* lines 66-68, one iteration: Awrk[k] = A[i*N+k]; k++.  A store past the end
\* of float Awrk[1024] (line 64) is undefined: nothing more is known of the
\* work-item.
AwrkStore(w) ==
  /\ wpc[w] = "load"
  /\ IF wk[w] < N
     THEN IF wk[w] < AwrkCap
          THEN /\ Awrk' = [Awrk EXCEPT ![w][wk[w]] = d_a[w * N + wk[w]]]
               /\ wk' = [wk EXCEPT ![w] = @ + 1]
               /\ UNCHANGED wpc
          ELSE /\ wpc' = [wpc EXCEPT ![w] = "undefined"]
               /\ UNCHANGED <<Awrk, wk>>
     ELSE /\ wpc' = [wpc EXCEPT ![w] = "read"]
          /\ wk' = [wk EXCEPT ![w] = 0]
          /\ UNCHANGED Awrk
  /\ UNCHANGED <<hostVars, bufVars, kernel, G, nloc, hung, wj, Bwrk, staged,
                 cwriters>>

\* lines 74-76, one iteration: the read of Awrk[k]; k++.
AwrkRead(w) ==
  /\ wpc[w] = "read"
  /\ IF wk[w] < N
     THEN IF wk[w] < AwrkCap
          THEN /\ wk' = [wk EXCEPT ![w] = @ + 1]
               /\ UNCHANGED wpc
          ELSE /\ wpc' = [wpc EXCEPT ![w] = "undefined"]
               /\ UNCHANGED wk
     ELSE /\ wpc' = [wpc EXCEPT ![w] = "done"]
          /\ UNCHANGED wk
  /\ UNCHANGED <<hostVars, bufVars, kernel, G, nloc, hung, wj, Awrk, Bwrk,
                 staged, cwriters>>

NextLoad ==
  \/ \E w \in DOMAIN wpc : AwrkStore(w)
  \/ \E w \in DOMAIN wpc : AwrkRead(w)

SpecLoad == InitLoad /\ [][NextLoad]_vars

\* ================================================================= claims
LastReport == reported[Len(reported)]

\* The product the claims compare with: C[i,j] = sum over k of A[i,k]*B[k,j].
Product(n, a, b) == SeqMatMul(n, a, b)

\* The run got past device selection and no call into OpenCL failed for a
\* reason outside the program.
CleanRun == numDevices >= 0 /\ deviceIndex < numDevices /\ thrown # "env"

\* C1: every repetition of the tiled strategy hands results a C that equals
\* the product of A and B.  (Stated as the claim; the code violates it.)
C1_TiledReportsProduct ==
  (pc = "optLoop" /\ rep >= 1) =>
     /\ LastReport.strategy = "opt"
     /\ LastReport.C = Product(N, h_A, h_B)

\* C2: every repetition of the naive strategy hands results a C that equals
\* the product of A and B, whatever d_c held before the launch.
C2_NaiveReportsProduct ==
  (pc = "naiveLoop" /\ rep >= 1) =>
     /\ LastReport.strategy = "naive"
     /\ LastReport.rep = rep
     /\ LastReport.C = Product(N, h_A, h_B)

C2_Witness ==
  /\ pc = "naiveLoop" /\ rep = 2 /\ N = TeamDiv
  /\ LastReport.strategy = "naive"
  /\ LastReport.C # ZeroMat(N)

\* C4: within a strategy the C reported after repetition r >= 2 is the C
\* reported after repetition 1.  (Stated as the claim; the code violates it.)
C4_RepetitionsAgree ==
  \A x, y \in DOMAIN reported :
     reported[x].strategy = reported[y].strategy => reported[x].C = reported[y].C

\* C6: a run in which a cl::Error was thrown prints a diagnostic and exits
\* with failure status; a run exits with success status only if neither
\* device selection nor a call into OpenCL failed.  (Stated as the claim; the
\* code violates it.)
C6_ErrorExitsWithFailure ==
  pc = "exited" =>
     /\ thrown # "none" => (exitStatus = EXIT_FAILURE /\ "ERROR" \in printed)
     /\ exitStatus = EXIT_SUCCESS =>
          (thrown = "none" /\ numDevices >= 0 /\ deviceIndex < numDevices)

\* C7: when the device index is not smaller than the number of devices the
\* run prints the error, exits with failure status, and initialises no
\* matrix, multiplies nothing and launches no kernel.
C7_InvalidDeviceIndexFails ==
  (numDevices >= 0 /\ deviceIndex >= numDevices) =>
     /\ pc \in {"checkIndex", "exited"}
     /\ initmatCalls = 0 /\ seqCalls = 0 /\ launches = 0 /\ reported = <<>>
     /\ inflight = "none"
     /\ pc = "exited" =>
          (exitStatus = EXIT_FAILURE /\ "Invalid device index" \in printed)

C7_Witness ==
  /\ pc = "exited" /\ numDevices = 1 /\ deviceIndex = numDevices
  /\ exitStatus = EXIT_FAILURE

\* C8: built with order 1, a run that the environment does not disturb
\* reports C[0,0] = A[0,0]*B[0,0] for each of the three strategies.  (Stated
\* as the claim; the code violates it.)
C8_OrderOneAllStrategies ==
  (N = 1 /\ pc = "exited" /\ CleanRun) =>
     \A s \in {"seq", "naive", "opt"} :
        \E x \in DOMAIN reported :
           reported[x].strategy = s /\ reported[x].C[0] = h_A[0] * h_B[0]

\* The positions of main() inside each strategy, from its first repetition.
SeqPcs == {"seqLoop"}
NaivePcs == {"naiveLoop", "naiveEnqueue", "naiveFinish", "naiveCopy"}
OptPcs == {"optLoop", "optEnqueue", "optFinish", "optCopy"}

\* The number of results() calls of a strategy so far.
Reports(strategy) ==
  Cardinality({x \in DOMAIN reported : reported[x].strategy = strategy})

\* C11: at the moment a timed repetition of a parallel strategy launches its
\* kernel, every element of the device buffer d_c is 0.  (Stated as the
\* claim; the code violates it.)
C11_DeviceCZeroAtLaunch ==
  (\/ pc = "naiveEnqueue"
   \/ pc = "optEnqueue" /\ ValidShape(N, LocalSize(N))) => d_c = ZeroMat(N)

\* C14: built with an order whose team size N/16 is 0 or does not divide N,
\* a run that the environment does not disturb never issues the tiled
\* launch; it prints a diagnostic and exits with failure status.  (Stated as
\* the claim; the code violates it.)
C14_InvalidOrderRejected ==
  (~ValidShape(N, LocalSize(N)) /\ thrown # "env") =>
     /\ pc # "optEnqueue"
     /\ pc = "exited" => (exitStatus = EXIT_FAILURE /\ printed # {})

\* C16: a parallel repetition reads d_c back and reports only after the
\* device has run that repetition's kernel to completion, and launches only
\* after every earlier launch has been read back and reported; at most one
\* kernel is in flight.
C16_OneKernelInFlight ==
  /\ launches - executed = (IF inflight \in {"mmul", "opt"} THEN 1 ELSE 0)
  /\ pc \in {"naiveCopy", "optCopy"} =>
       /\ inflight = "none" /\ executed = launches
       /\ Reports("naive") + Reports("opt") = launches - 1
  /\ pc \in {"naiveEnqueue", "optEnqueue"} =>
       /\ inflight = "none"
       /\ Reports("naive") + Reports("opt") = launches

C16_Witness ==
  pc = "naiveCopy" /\ rep = 1 /\ executed = 2 /\ Reports("naive") = 1

\* C17: throughout a strategy's repetitions the host A and B are the ones
\* initmat built after the previous strategy's last repetition (one initmat
\* call per strategy), and in the parallel strategies the device buffers d_a
\* and d_b hold them.
C17_InputsFreshPerStrategy ==
  /\ pc \in SeqPcs => initmatCalls = 1
  /\ pc \in NaivePcs =>
       initmatCalls = 2 /\ Reports("seq") = count /\ Reports("naive") = rep
  /\ pc \in OptPcs =>
       initmatCalls = 3 /\ Reports("naive") = count /\ Reports("opt") = rep
  /\ pc \in SeqPcs \cup NaivePcs \cup OptPcs =>
       h_A = FillA(pat, N) /\ h_B = FillB(pat, N)
  /\ pc \in NaivePcs \cup OptPcs => (d_a = h_A /\ d_b = h_B)

C17_Witness ==
  pc = "optCopy" /\ rep = 1 /\ initmatCalls = 3 /\ d_a = FillA(pat, N)

\* ------------------------------------------------- one kernel invocation
AllDone == \A w \in WorkItems : wpc[w] = "done"

\* Group t's barrier of epoch j has released: a member is past it.
Released(t, j) ==
  \E w \in Members(t) : w < N /\ (wj[w] > j \/ (wj[w] = j /\ wpc[w] = "acc"))

\* The slots of Bwrk that the work-item with local index loc stages (line 70).
SlotsOf(loc) == {k \in 0 .. (N - 1) : k % nloc = loc}

\* The step DeviceExecute of the driver model agrees with the work-items of
\* mmul: a finished invocation leaves what MmulKernel computes.
MmulStepAgrees ==
  (kernel = "mmul" /\ AllDone) => d_c = MmulKernel(N, d_a, d_b, h_C, G, G)

\* The step DeviceExecute of the driver model agrees with the work-items: a
\* finished invocation leaves what OptKernel computes from the initial C.
DeviceStepAgrees ==
  AllDone => d_c = OptKernel(N, d_a, d_b, h_C, h_C, G)

\* C3: one invocation of the tiled kernel on an all-zero C by exactly N
\* work-items in groups of a size that divides N runs to the end under every
\* interleaving and leaves C = A x B, whatever Bwrk held at the start.
C3_TiledKernelComputesProduct ==
  (G = N /\ N % nloc = 0 /\ h_C = ZeroMat(N)) =>
     /\ AllDone => d_c = Product(N, d_a, d_b)
     /\ AllDone \/ ENABLED NextKernel

C3_Witness ==
  /\ G = N /\ N = 2 /\ nloc = 2 /\ h_C = ZeroMat(N)
  /\ AllDone
  /\ d_c # h_C

\* C5: when a group's barrier of epoch j releases, every slot k of Bwrk has
\* been written in that epoch exactly once, by the member with local index
\* k mod nloc - for every group and every local size.  (Stated as the claim;
\* the code violates it.)
C5_ScratchCoverage ==
  \A t \in Groups : \A j \in 0 .. (N - 1) :
     Released(t, j) =>
        \A k \in 0 .. (N - 1) : staged[t][j][k] = <<k % nloc>>

\* What the staging loop of lines 70-71 does guarantee: in a group whose
\* work-items all execute the body, each slot is written exactly once per
\* epoch, by the member with local index k mod nloc, before the barrier
\* releases - also when nloc does not divide N.
ScratchCoverageInFullGroups ==
  \A t \in Groups : \A j \in 0 .. (N - 1) :
     (Released(t, j) /\ \A v \in Members(t) : v < N) =>
        \A k \in 0 .. (N - 1) : staged[t][j][k] = <<k % nloc>>

\* C9: no work-item accumulates column j before every work-item of its group
\* has made all its writes to Bwrk for column j.
C9_StagingBeforeConsumption ==
  \A w \in WorkItems :
     wpc[w] = "acc" =>
        \A v \in Members(GroupOf(w)) :
           v < N =>
              \A k \in SlotsOf(LocalId(v)) :
                 staged[GroupOf(w)][wj[w]][k] = <<LocalId(v)>>

C9_Witness ==
  /\ N = 3 /\ nloc = 2 /\ G = 2
  /\ wpc[0] = "acc" /\ wj[0] = 1
  /\ wpc[1] = "stage" /\ wj[1] = 2

\* C10: while a work-item accumulates column j, every slot k of its group's
\* Bwrk holds B[k,j].  (Stated as the claim, for the groups whose work-items
\* all execute the body, where the barrier is well defined; the code violates
\* it even there.)
C10_ScratchHoldsColumn ==
  \A w \in WorkItems :
     (wpc[w] = "acc" /\ \A v \in Members(GroupOf(w)) : v < N) =>
        \A k \in 0 .. (N - 1) : Bwrk[GroupOf(w)][k] = d_b[k * N + wj[w]]


\* The one work-item that the kernel lets store to cell c of C: (i,j) of
\* mmul, i of the tiled kernel, where c = i*N+j.
Owner(c) == IF kernel = "mmul" THEN (c \div N) * G + (c % N) ELSE c \div N

\* C12: in one invocation of either kernel, under every interleaving, no
\* cell of C is stored to by two work-items: work-item (i,j) of mmul stores
\* to C[i,j] only, work-item i of the tiled kernel to cells of row i only.
C12_NoWriteWriteRace ==
  \A c \in DOMAIN cwriters : cwriters[c] \subseteq {Owner(c)}

C12_Witness ==
  /\ kernel = "opt" /\ N = 2 /\ G = 2 /\ AllDone
  /\ \A c \in DOMAIN cwriters : cwriters[c] = {c \div N}

\* C13: every invocation of the tiled kernel runs to the end: while a
\* work-item is unfinished some work-item can take a step, also when a
\* work-group holds work-items with i < N and with i >= N.  (Stated as the
\* claim; the code violates it.)
C13_TiledKernelTerminates == AllDone \/ ENABLED NextKernel

\* Work-item w is outside the matrix: (i,j) with i >= N or j >= N in mmul,
\* i >= N in the tiled kernel.
Skips(w) ==
  IF kernel = "mmul" THEN (w \div G) >= N \/ (w % G) >= N ELSE w >= N

\* C18: a work-item outside the matrix does nothing: it never enters the
\* kernel body, stores to no cell of C and to no slot of Bwrk, and A and B
\* are as at the launch; while only such work-items have run, C is as at
\* the launch.
C18_IdleWorkItemsChangeNothing ==
  /\ d_a = h_A /\ d_b = h_B
  /\ (\A w \in WorkItems : wpc[w] # "start" => Skips(w)) => d_c = h_C
  /\ \A w \in WorkItems :
        Skips(w) =>
           /\ wpc[w] \in {"start", "done"}
           /\ Awrk[w] = <<>>
           /\ \A c \in DOMAIN cwriters : w \notin cwriters[c]
           /\ kernel = "opt" =>
                \A j, k \in 0 .. (N - 1) :
                   LET writers == staged[GroupOf(w)][j][k]
                   IN \A x \in 1 .. Len(writers) : writers[x] # LocalId(w)

C18_Witness ==
  /\ kernel = "mmul" /\ N = 1 /\ G = 2
  /\ \A w \in WorkItems : (wpc[w] = "done") = Skips(w)
  /\ d_c = h_C /\ \A c \in DOMAIN cwriters : cwriters[c] = {}

\* C15: the private array holds the whole row: every index at which the
\* work-item stores to or reads Awrk lies below its capacity, and once the
\* copy loop has ended Awrk[k] = A[i*N+k] for every k < N.  (Stated as the
\* claim; the code violates it.)
C15_AwrkHoldsRow ==
  \A w \in DOMAIN wpc :
     /\ wpc[w] # "undefined"
     /\ (wpc[w] \in {"load", "read"} /\ wk[w] < N) => wk[w] < AwrkCap
     /\ wpc[w] \in {"read", "done"} =>
          \A k \in 0 .. (N - 1) : k < AwrkCap /\ Awrk[w][k] = d_a[w * N + k]

====
